---- MODULE Spec2Model ----
(***************************************************************************)
(* Room lifecycle of the signaling relay.                                  *)
(*                                                                         *)
(* Spec   : the plain server, src/server.js.                               *)
(* SpecId : the identity-aware server, src/unnamed/part_000 lines 175-600. *)
(*                                                                         *)
(* Both servers keep their state in module-level maps of the same names    *)
(* (rooms, userRooms); each specification runs one of the two programs on  *)
(* these variables.  A handler is an operator from the server state (a     *)
(* record st of the maps, the socket.io adapter and the events emitted so  *)
(* far) to the server state after the handler; an action applies one       *)
(* handler to the variables.  Node runs one handler at a time, so every    *)
(* handler is one atomic step.  The events a handler emits are its         *)
(* result's field out (a sequence of [ev, to, arg]: event name, the set of *)
(* sockets it is sent to, payload); they are not kept between steps.       *)
(*                                                                         *)
(* Strings that the code inspects (room ids, passwords, room names,        *)
(* socket ids) are sequences of one-character strings.  Inputs are well    *)
(* typed: the typeof guards of the handlers are modelled for the absent    *)
(* (null / undefined) case only.  The read-only handlers ping and          *)
(* get-public-rooms are left out.                                          *)
(***************************************************************************)
EXTENDS Integers, Sequences, FiniteSets, TLC

VARIABLES rooms, userRooms, adapter, conns, now, activeNicknames, socketToUser

vars == <<rooms, userRooms, adapter, conns, now, activeNicknames, socketToUser>>

(* ---------------------------------------------------------------- bounds *)

\* number of socket ids (transport sessions) that ever connect to the plain
\* server
MaxSockets == 2
\* Math.random() is drawn from {0/RandDen, ..., (RandDen-1)/RandDen}
RandDen == 2
\* number of clock steps
MaxTicks == 2
\* janitor periods in one clock step
PeriodsPerTick == 4
\* number of durable client identifiers
MaxDevices == 2
\* number of socket ids that ever connect to the identity-aware server
MaxIdSockets == 3

(* ------------------------------------------------------------- constants *)

maxAttempts == 10
oneHour == 60 * 60 * 1000
sweepPeriod == 10 * 60 * 1000

(* --------------------------------------------------------------- strings *)

DigitChars == <<"0", "1", "2", "3", "4", "5", "6", "7", "8", "9">>

Digit == {DigitChars[i] : i \in 1..10}

RECURSIVE toString(_)
toString(n) ==
  IF n < 10 THEN <<DigitChars[n + 1]>>
  ELSE Append(toString(n \div 10), DigitChars[(n % 10) + 1])

\* /^\d{6}$/.test(s)
isSixDigits(s) == Len(s) = 6 /\ \A i \in 1..Len(s) : s[i] \in Digit

\* undefined, null and "" are all falsy; one value stands for them
Absent == <<>>

SocketId(i) == <<"s", DigitChars[i + 1]>>

\* the socket ids of the run
Sockets == DOMAIN conns

(* ------------------------------------------------------------------ maps *)

EmptyMap == [k \in {} |-> Absent]

MapSet(m, k, v) == [x \in DOMAIN m \cup {k} |-> IF x = k THEN v ELSE m[x]]

MapDelete(m, k) == [x \in DOMAIN m \ {k} |-> m[x]]

MapHas(m, k) == k \in DOMAIN m

\* a JavaScript Set, in insertion order
SetHas(s, x) == \E i \in 1..Len(s) : s[i] = x

SetAdd(s, x) == IF SetHas(s, x) THEN s ELSE Append(s, x)

SetDelete(s, x) == SelectSeq(s, LAMBDA y : y # x)

Elems(s) == {s[i] : i \in 1..Len(s)}

(* ------------------------------------------------------------- socket.io *)

\* the server state a handler works on
St == [rooms |-> rooms, userRooms |-> userRooms, adapter |-> adapter, out |-> <<>>]

\* the sockets in socket.io room `name` (every connected socket is in the
\* room named by its own id)
InRoom(st, name) == {s \in DOMAIN st.adapter : name \in st.adapter[s]}

Emit(st, ev, to, arg) ==
  [st EXCEPT !.out = Append(@, [ev |-> ev, to |-> to, arg |-> arg])]

\* socket.emit(ev, arg)
SocketEmit(st, s, ev, arg) == Emit(st, ev, {s}, arg)

\* socket.to(name).emit(ev, arg)
SocketToEmit(st, s, name, ev, arg) == Emit(st, ev, InRoom(st, name) \ {s}, arg)

\* io.to(name).emit(ev, arg)
IoToEmit(st, name, ev, arg) == Emit(st, ev, InRoom(st, name), arg)

SocketJoin(st, s, name) == [st EXCEPT !.adapter[s] = @ \cup {name}]

SocketLeave(st, s, name) == [st EXCEPT !.adapter[s] = @ \ {name}]

(* ------------------------------------------------- server.js: helpers *)

\* removeUserFromRoom with the re-election of lines 38-43 left out
removeUserFromRoom_keepHost(st, userId, roomId) ==
  IF ~MapHas(st.rooms, roomId) THEN st
  ELSE
    LET users1 == SetDelete(st.rooms[roomId].users, userId)
        st1 == [st EXCEPT !.userRooms = MapDelete(@, userId)]
    IN IF Len(users1) = 0
       THEN [st1 EXCEPT !.rooms = MapDelete(@, roomId)]
       ELSE [st1 EXCEPT !.rooms[roomId].users = users1]

\* removeUserFromRoom with the notification of line 41 left out
removeUserFromRoom_noNotice(st, userId, roomId) ==
  IF ~MapHas(st.rooms, roomId) THEN st
  ELSE
    LET room == st.rooms[roomId]
        users1 == SetDelete(room.users, userId)
        st1 == [st EXCEPT !.userRooms = MapDelete(@, userId)]
    IN IF Len(users1) = 0
       THEN [st1 EXCEPT !.rooms = MapDelete(@, roomId)]
       ELSE IF room.host = userId
            THEN [st1 EXCEPT !.rooms[roomId].users = users1,
                             !.rooms[roomId].host = users1[1]]
            ELSE [st1 EXCEPT !.rooms[roomId].users = users1]

\* removeUserFromRoom with the deletion of lines 31-36 left out
removeUserFromRoom_keepEmpty(st, userId, roomId) ==
  IF ~MapHas(st.rooms, roomId) THEN st
  ELSE
    LET room == st.rooms[roomId]
        users1 == SetDelete(room.users, userId)
        st1 == [st EXCEPT !.userRooms = MapDelete(@, userId)]
    IN IF Len(users1) > 0 /\ room.host = userId
       THEN IoToEmit([st1 EXCEPT !.rooms[roomId].users = users1,
                                 !.rooms[roomId].host = users1[1]],
                     roomId, "new-host", users1[1])
       ELSE [st1 EXCEPT !.rooms[roomId].users = users1]

\* removeUserFromRoom(userId, roomId)
removeUserFromRoom(st, userId, roomId) ==
  IF ~MapHas(st.rooms, roomId) THEN st
  ELSE
    LET room == st.rooms[roomId]
        users1 == SetDelete(room.users, userId)
        st1 == [st EXCEPT !.userRooms = MapDelete(@, userId)]
    IN IF Len(users1) = 0
       THEN [st1 EXCEPT !.rooms = MapDelete(@, roomId)]
       ELSE IF room.host = userId
            THEN LET newHost == users1[1]
                 IN IoToEmit([st1 EXCEPT !.rooms[roomId].users = users1,
                                         !.rooms[roomId].host = newHost],
                             roomId, "new-host", newHost)
            ELSE [st1 EXCEPT !.rooms[roomId].users = users1]

\* generateRoomId() when Math.random() returns k / RandDen
generateRoomId(k) == toString(100000 + ((k * 900000) \div RandDen))

GeneratedIds == {generateRoomId(k) : k \in 0..(RandDen - 1)}

\* the values finalRoomId can hold when the do-while loop of create-room
\* exits, `attempts` draws having been made before
RECURSIVE generateLoop(_, _)
generateLoop(rms, attempts) ==
  LET again == {id \in GeneratedIds : MapHas(rms, id) /\ attempts + 1 < maxAttempts}
  IN (GeneratedIds \ again) \cup
     (IF again = {} THEN {} ELSE generateLoop(rms, attempts + 1))

\* validateSettings(settings)
validateSettings(settings) ==
  IF settings.kind # "object" THEN FALSE
  ELSE IF settings.maxUsers < 2 \/ settings.maxUsers > 10 THEN FALSE
  ELSE IF settings.answerTime < 5 \/ settings.answerTime > 60 THEN FALSE
  ELSE IF settings.questionCount < 1 \/ settings.questionCount > 50 THEN FALSE
  ELSE IF settings.roomName = Absent \/ Len(settings.roomName) < 3
          \/ Len(settings.roomName) > 30 THEN FALSE
  ELSE IF settings.isPrivate /\ (settings.password = Absent \/ Len(settings.password) # 5)
       THEN FALSE
  ELSE TRUE

(* ------------------------------------------------ server.js: handlers *)

\* create-room with the rooms.has test of lines 93-96 left out
createRoom_noTakenCheck(st, s, data, t, generated) ==
  IF data.kind # "object" THEN SocketEmit(st, s, "room-error", "Invalid room data")
  ELSE IF ~validateSettings(data.settings)
       THEN SocketEmit(st, s, "room-error", "Invalid game settings")
  ELSE IF data.roomId # Absent /\ ~isSixDigits(data.roomId)
       THEN SocketEmit(st, s, "room-error", "Room ID must be exactly 6 digits")
  ELSE
    LET finalRoomId == IF data.roomId # Absent THEN data.roomId ELSE generated
        room == [id |-> finalRoomId, host |-> s, users |-> <<s>>,
                 settings |-> data.settings, gameStarted |-> FALSE, createdAt |-> t]
        st1 == [st EXCEPT !.rooms = MapSet(@, finalRoomId, room),
                          !.userRooms = MapSet(@, s, finalRoomId)]
        st2 == SocketJoin(st1, s, finalRoomId)
        st3 == SocketEmit(st2, s, "room-created", finalRoomId)
    IN SocketEmit(st3, s, "existing-users", <<>>)

\* socket.on('create-room'); t is Date.now(), generated is the id the
\* generation loop ends with (read only when no id is requested)
createRoom(st, s, data, t, generated) ==
  IF data.kind # "object" THEN SocketEmit(st, s, "room-error", "Invalid room data")
  ELSE IF ~validateSettings(data.settings)
       THEN SocketEmit(st, s, "room-error", "Invalid game settings")
  ELSE IF data.roomId # Absent /\ ~isSixDigits(data.roomId)
       THEN SocketEmit(st, s, "room-error", "Room ID must be exactly 6 digits")
  ELSE IF data.roomId # Absent /\ MapHas(st.rooms, data.roomId)
       THEN SocketEmit(st, s, "room-error", "Room ID already exists")
  ELSE
    LET finalRoomId == IF data.roomId # Absent THEN data.roomId ELSE generated
        room == [id |-> finalRoomId, host |-> s, users |-> <<s>>,
                 settings |-> data.settings, gameStarted |-> FALSE, createdAt |-> t]
        st1 == [st EXCEPT !.rooms = MapSet(@, finalRoomId, room),
                          !.userRooms = MapSet(@, s, finalRoomId)]
        st2 == SocketJoin(st1, s, finalRoomId)
        st3 == SocketEmit(st2, s, "room-created", finalRoomId)
    IN SocketEmit(st3, s, "existing-users", <<>>)

\* the comparison of line 155 left out
passwordMatches_any(room, password) == TRUE

\* room.settings.password !== password is false
passwordMatches(room, password) == room.settings.password = password

\* > written for >= in line 166
roomIsFull_offByOne(room) == Len(room.users) > room.settings.maxUsers

\* room.users.size >= room.settings.maxUsers
roomIsFull(room) == Len(room.users) >= room.settings.maxUsers

\* socket.on('join-room'); data is a bare room id (kind "string") or
\* {roomId, password} (kind "object")
joinRoom(st, s, data) ==
  LET roomId == IF data.kind = "null" THEN Absent ELSE data.roomId
      password == IF data.kind = "object" THEN data.password ELSE Absent
  IN IF roomId = Absent \/ ~isSixDigits(roomId)
     THEN SocketEmit(st, s, "room-error", "Invalid room ID. Must be 6 digits.")
     ELSE IF ~MapHas(st.rooms, roomId)
     THEN SocketEmit(st, s, "room-error", "Room does not exist")
     ELSE
       LET room == st.rooms[roomId]
       IN IF room.settings.isPrivate /\ password = Absent
          THEN SocketEmit(st, s, "password-required", roomId)
          ELSE IF room.settings.isPrivate /\ ~passwordMatches(room, password)
          THEN SocketEmit(st, s, "room-error", "Incorrect password")
          ELSE IF room.gameStarted
          THEN SocketEmit(st, s, "room-error", "Game already in progress")
          ELSE IF roomIsFull(room)
          THEN SocketEmit(st, s, "room-error", "Room is full")
          ELSE IF SetHas(room.users, s)
          THEN SocketEmit(st, s, "room-error", "Already in room")
          ELSE
            LET st1 == SocketJoin(st, s, roomId)
                st2 == [st1 EXCEPT !.userRooms = MapSet(@, s, roomId),
                                   !.rooms[roomId].users = SetAdd(@, s)]
                existingUsers == SetDelete(st2.rooms[roomId].users, s)
                st3 == SocketEmit(st2, s, "room-joined",
                                  [settings |-> room.settings,
                                   gameStarted |-> room.gameStarted,
                                   host |-> room.host, roomId |-> roomId])
                st4 == SocketEmit(st3, s, "existing-users", existingUsers)
            IN SocketToEmit(st4, s, roomId, "user-joined", s)

\* socket.on('leave-room')
leaveRoom(st, s) ==
  IF ~MapHas(st.userRooms, s) THEN st
  ELSE LET roomId == st.userRooms[s]
           st1 == removeUserFromRoom(st, s, roomId)
           st2 == SocketLeave(st1, s, roomId)
       IN SocketToEmit(st2, s, roomId, "user-left", s)

\* socket.on('start-game')
startGame(st, s) ==
  IF ~MapHas(st.userRooms, s) THEN st
  ELSE LET roomId == st.userRooms[s]
       IN IF ~MapHas(st.rooms, roomId) \/ st.rooms[roomId].host # s
             \/ st.rooms[roomId].gameStarted
          THEN SocketEmit(st, s, "room-error", "Cannot start game")
          ELSE IF Len(st.rooms[roomId].users) < 2
          THEN SocketEmit(st, s, "room-error", "Need at least 2 players")
          ELSE SocketToEmit([st EXCEPT !.rooms[roomId].gameStarted = TRUE],
                            s, roomId, "game-started", Absent)

\* socket.on('offer'); data is {target, sdp}
offer(st, s, data) ==
  IF data.kind = "null" \/ data.target = Absent \/ data.sdp = Absent THEN st
  ELSE SocketToEmit(st, s, data.target, "offer", [sdp |-> data.sdp, sender |-> s])

\* socket.on('answer'); data is {target, sdp}
answer(st, s, data) ==
  IF data.kind = "null" \/ data.target = Absent \/ data.sdp = Absent THEN st
  ELSE SocketToEmit(st, s, data.target, "answer", [sdp |-> data.sdp, sender |-> s])

\* socket.on('ice-candidate'); data is {target, candidate}
iceCandidate(st, s, data) ==
  IF data.kind = "null" \/ data.target = Absent \/ data.candidate = Absent THEN st
  ELSE SocketToEmit(st, s, data.target, "ice-candidate",
                    [candidate |-> data.candidate, sender |-> s])

\* socket.on('game-event'); t is Date.now()
gameEvent(st, s, data, t) ==
  IF MapHas(st.userRooms, s) /\ data.kind # "null"
  THEN SocketToEmit(st, s, st.userRooms[s], "game-event",
                    [data |-> data, sender |-> s, timestamp |-> t])
  ELSE st

\* socket.on('disconnect'); socket.io has taken the socket out of every
\* adapter room before the handler runs
disconnect(st, s) ==
  LET st0 == [st EXCEPT !.adapter[s] = {}]
  IN IF ~MapHas(st0.userRooms, s) THEN st0
     ELSE LET roomId == st0.userRooms[s]
              st1 == removeUserFromRoom(st0, s, roomId)
          IN SocketToEmit(st1, s, roomId, "user-left", s)

\* the setInterval callback at time t
RECURSIVE sweepRooms(_, _, _)
sweepRooms(st, ids, t) ==
  IF ids = {} THEN st
  ELSE LET roomId == CHOOSE id \in ids : TRUE
           room == st.rooms[roomId]
           st1 == IF t - room.createdAt > oneHour
                  THEN [st EXCEPT !.userRooms =
                                    [u \in DOMAIN @ \ Elems(room.users) |-> @[u]],
                                  !.rooms = MapDelete(@, roomId)]
                  ELSE st
       IN sweepRooms(st1, ids \ {roomId}, t)

\* a callback that evicts nothing
janitor_idle(st, t) == st

\* the callback with the userRooms.delete of line 351 left out
janitor_keepRefs(st, t) ==
  [sweepRooms(st, DOMAIN st.rooms, t) EXCEPT !.userRooms = st.userRooms]

janitor(st, t) == sweepRooms(st, DOMAIN st.rooms, t)

(* ----------------------------------------------------------------- inputs *)

Quiz ==
  [kind |-> "object", maxUsers |-> 2, answerTime |-> 30, questionCount |-> 5,
   isPrivate |-> FALSE, password |-> Absent, roomName |-> <<"Q", "u", "i", "z">>]

Pass == <<"a", "b", "c", "d", "e">>

WrongPass == <<"z", "z", "z", "z", "z">>

Secret == [Quiz EXCEPT !.isPrivate = TRUE, !.password = Pass]

\* a public room that carries a password
Hinted == [Quiz EXCEPT !.password = Pass]

ValidSettings == {Quiz, Secret, Hinted}

InvalidSettings ==
  {[kind |-> "null"],
   [Quiz EXCEPT !.maxUsers = 1], [Quiz EXCEPT !.maxUsers = 11],
   [Quiz EXCEPT !.roomName = <<"a", "b">>],
   [Secret EXCEPT !.password = Absent],
   [Secret EXCEPT !.password = <<"a", "b", "c", "d">>]}

SettingsInputs == ValidSettings \cup InvalidSettings

MalformedIds == {<<"1", "2", "3", "4", "5">>, <<"1", "2", "3", "4", "5", "a">>}

\* the room id a client asks for: none, one the generator can also draw, or
\* one that is not 6 digits
RequestedIds == {Absent, generateRoomId(0)} \cup MalformedIds

\* every create-room payload of the model
CreateInputs ==
  {[kind |-> "null"]} \cup
  {[kind |-> "object", settings |-> st, roomId |-> id] :
     st \in SettingsInputs, id \in RequestedIds}

\* the create-room payloads the clients send: one of each outcome
SentCreates ==
  {[kind |-> "null"]} \cup
  {[kind |-> "object", settings |-> st, roomId |-> Absent] : st \in ValidSettings} \cup
  {[kind |-> "object", settings |-> Quiz, roomId |-> id] : id \in RequestedIds} \cup
  {[kind |-> "object", settings |-> [Quiz EXCEPT !.maxUsers = 1], roomId |-> id] :
     id \in {Absent, generateRoomId(0)}}

JoinIds == GeneratedIds \cup MalformedIds \cup {Absent}

\* every join-room payload of the model
JoinInputs ==
  {[kind |-> "null"]} \cup
  {[kind |-> "string", roomId |-> id] : id \in JoinIds} \cup
  {[kind |-> "object", roomId |-> id, password |-> pw] :
     id \in JoinIds, pw \in {Absent, Pass, WrongPass}}

\* the join-room payloads the clients send: one of each outcome
SentJoins ==
  {[kind |-> "string", roomId |-> id] :
     id \in GeneratedIds \cup {<<"1", "2", "3", "4", "5">>}} \cup
  {[kind |-> "object", roomId |-> id, password |-> pw] :
     id \in GeneratedIds, pw \in {Pass, WrongPass}}

\* an opaque negotiation payload
Sdp == <<"v", "=", "0">>

\* the target of a relayed message: a socket id, a room code, or none
RelayTargets == Sockets \cup {generateRoomId(0), Absent}

\* every offer / answer payload of the model
SdpInputs ==
  {[kind |-> "null"]} \cup
  {[kind |-> "object", target |-> x, sdp |-> p] : x \in RelayTargets, p \in {Absent, Sdp}}

\* every ice-candidate payload of the model
CandidateInputs ==
  {[kind |-> "null"]} \cup
  {[kind |-> "object", target |-> x, candidate |-> p] :
     x \in RelayTargets, p \in {Absent, Sdp}}

\* every game-event payload of the model
GameEventInputs == {[kind |-> "null"], [kind |-> "object", type |-> <<"b", "u", "z", "z">>]}

(* ---------------------------------------------------------- server.js: Spec *)

\* no connection yet: n socket ids are still to come
InitWith(n) ==
  /\ rooms = EmptyMap
  /\ userRooms = EmptyMap
  /\ adapter = [s \in {SocketId(i) : i \in 1..n} |-> {}]
  /\ conns = [s \in {SocketId(i) : i \in 1..n} |-> "idle"]
  /\ now = 0
  /\ activeNicknames = EmptyMap
  /\ socketToUser = EmptyMap

Init == InitWith(MaxSockets)

Apply(st) ==
  /\ rooms' = st.rooms
  /\ userRooms' = st.userRooms
  /\ adapter' = st.adapter

\* socket ids are fresh and never reused: the ids are taken in order
NextSocket(s) ==
  \E i \in 1..Cardinality(Sockets) :
    /\ s = SocketId(i)
    /\ conns[s] = "idle"
    /\ \A j \in 1..(i - 1) : conns[SocketId(j)] # "idle"

\* io.on('connection')
Connect(s) ==
  /\ NextSocket(s)
  /\ conns' = [conns EXCEPT ![s] = "open"]
  /\ Apply([St EXCEPT !.adapter[s] = {s}])
  /\ UNCHANGED <<now, activeNicknames, socketToUser>>

CreateRoom(s) ==
  /\ conns[s] = "open"
  /\ \E data \in SentCreates :
       \E generated \in (IF data.kind = "object" /\ data.roomId = Absent
                         THEN generateLoop(rooms, 0) ELSE {Absent}) :
         Apply(createRoom(St, s, data, now, generated))
  /\ UNCHANGED <<conns, now, activeNicknames, socketToUser>>

JoinRoom(s) ==
  /\ conns[s] = "open"
  /\ \E data \in SentJoins : Apply(joinRoom(St, s, data))
  /\ UNCHANGED <<conns, now, activeNicknames, socketToUser>>

LeaveRoom(s) ==
  /\ conns[s] = "open"
  /\ Apply(leaveRoom(St, s))
  /\ UNCHANGED <<conns, now, activeNicknames, socketToUser>>

StartGame(s) ==
  /\ conns[s] = "open"
  /\ Apply(startGame(St, s))
  /\ UNCHANGED <<conns, now, activeNicknames, socketToUser>>

Disconnect(s) ==
  /\ conns[s] = "open"
  /\ conns' = [conns EXCEPT ![s] = "closed"]
  /\ Apply(disconnect(St, s))
  /\ UNCHANGED <<now, activeNicknames, socketToUser>>

Offer(s) ==
  /\ conns[s] = "open"
  /\ \E data \in SdpInputs : Apply(offer(St, s, data))
  /\ UNCHANGED <<conns, now, activeNicknames, socketToUser>>

Answer(s) ==
  /\ conns[s] = "open"
  /\ \E data \in SdpInputs : Apply(answer(St, s, data))
  /\ UNCHANGED <<conns, now, activeNicknames, socketToUser>>

IceCandidate(s) ==
  /\ conns[s] = "open"
  /\ \E data \in CandidateInputs : Apply(iceCandidate(St, s, data))
  /\ UNCHANGED <<conns, now, activeNicknames, socketToUser>>

GameEvent(s) ==
  /\ conns[s] = "open"
  /\ \E data \in GameEventInputs : Apply(gameEvent(St, s, data, now))
  /\ UNCHANGED <<conns, now, activeNicknames, socketToUser>>

\* PeriodsPerTick periods pass with no client event in between: the
\* setInterval callback runs at the end of each
RECURSIVE sweeps(_, _, _)
sweeps(st, t, n) ==
  IF n = 0 THEN st ELSE sweeps(janitor(st, t + sweepPeriod), t + sweepPeriod, n - 1)

Janitor ==
  /\ now < MaxTicks * PeriodsPerTick * sweepPeriod
  /\ now' = now + PeriodsPerTick * sweepPeriod
  /\ Apply(sweeps(St, now, PeriodsPerTick))
  /\ UNCHANGED <<conns, activeNicknames, socketToUser>>

Next ==
  \/ \E s \in Sockets : Connect(s)
  \/ \E s \in Sockets : CreateRoom(s)
  \/ \E s \in Sockets : JoinRoom(s)
  \/ \E s \in Sockets : LeaveRoom(s)
  \/ \E s \in Sockets : StartGame(s)
  \/ \E s \in Sockets : Offer(s)
  \/ \E s \in Sockets : Answer(s)
  \/ \E s \in Sockets : IceCandidate(s)
  \/ \E s \in Sockets : GameEvent(s)
  \/ \E s \in Sockets : Disconnect(s)
  \/ Janitor

Spec == Init /\ [][Next]_vars

\* the end of the modelled time
Horizon == MaxTicks * PeriodsPerTick * sweepPeriod

\* the clock part of Janitor; the steps that change now are the Janitor steps
ClockStep == now < Horizon /\ now' = now + PeriodsPerTick * sweepPeriod

\* setInterval keeps firing the callback, whose body is wrapped in try/catch
\* (lines 344-362): time passes and the sweeps run, up to the horizon
SpecLive == Spec /\ WF_now(ClockStep)

(* ------------------------------- part_000 (identity-aware): handlers *)

DeviceId(i) == <<"d", DigitChars[i + 1]>>

Devices == {DeviceId(i) : i \in 1..MaxDevices}

Ann == <<"A", "n", "n">>

Annie == <<"A", "n", "n", "i", "e">>

Nicknames == {Ann, Annie}

\* socket.handshake.auth
AuthInputs ==
  {[kind |-> "null"]} \cup
  {[kind |-> "object", nickname |-> n, deviceId |-> d] :
     n \in Nicknames \cup {Absent}, d \in Devices \cup {Absent}}

\* the state an identity-aware handler works on; disconnected is set when the
\* handler calls socket.disconnect()
IdSt ==
  [rooms |-> rooms, userRooms |-> userRooms, adapter |-> adapter, out |-> <<>>,
   activeNicknames |-> activeNicknames, socketToUser |-> socketToUser,
   disconnected |-> FALSE]

\* Array.from(activeNicknames.values())
NicknameValues(st) == {st.activeNicknames[d] : d \in DOMAIN st.activeNicknames}

\* socket.disconnect()
SocketDisconnect(st, s) == [st EXCEPT !.adapter[s] = {}, !.disconnected = TRUE]

\* io.on('connection'): the admission of lines 240-267; the socket is already
\* in the adapter room of its own id
connection(st, s, auth) ==
  LET st0 == [st EXCEPT !.adapter[s] = {s}]
  IN IF auth.kind = "null" \/ auth.nickname = Absent \/ auth.deviceId = Absent
     THEN SocketDisconnect(SocketEmit(st0, s, "room-error", "Invalid user credentials"), s)
     ELSE
       LET nickname == auth.nickname
           deviceId == auth.deviceId
           bound == [st0 EXCEPT !.activeNicknames = MapSet(@, deviceId, nickname)]
           user == [nickname |-> nickname, deviceId |-> deviceId]
       IN IF MapHas(st0.activeNicknames, deviceId)
             /\ st0.activeNicknames[deviceId] # nickname
          THEN [bound EXCEPT !.socketToUser = MapSet(@, s, user)]
          ELSE IF nickname \in NicknameValues(st0)
          THEN SocketDisconnect(SocketEmit(st0, s, "nickname-taken", nickname), s)
          ELSE [bound EXCEPT !.socketToUser = MapSet(@, s, user)]

\* socket.on('create-room'), lines 277-329: the code of server.js 73-125
idCreateRoom(st, s, data, t, generated) == createRoom(st, s, data, t, generated)

\* {id, nickname: user?.nickname || 'Unknown', deviceId: user?.deviceId || ''}
UserInfo(st, id) ==
  IF MapHas(st.socketToUser, id)
  THEN [id |-> id, nickname |-> st.socketToUser[id].nickname,
        deviceId |-> st.socketToUser[id].deviceId]
  ELSE [id |-> id, nickname |-> <<"U", "n", "k", "n", "o", "w", "n">>, deviceId |-> Absent]

\* socket.on('join-room'), lines 331-416: the code of server.js 127-195 with
\* the payloads of existing-users and user-joined carrying the identities
idJoinRoom(st, s, data) ==
  LET st1 == joinRoom(st, s, data)
      payload(e) ==
        IF e.ev = "existing-users"
        THEN [e EXCEPT !.arg = [i \in 1..Len(e.arg) |-> UserInfo(st, e.arg[i])]]
        ELSE IF e.ev = "user-joined" THEN [e EXCEPT !.arg = UserInfo(st, s)]
        ELSE e
  IN [st1 EXCEPT !.out = [i \in 1..Len(st1.out) |-> payload(st1.out[i])]]

\* socket.on('leave-room'), lines 443-455: userIdentifier is declared nowhere,
\* so line 445 throws a ReferenceError, which line 452 catches and logs
idLeaveRoom(st, s) == st

\* socket.on('start-game'), lines 457-480: line 459 throws the same
\* ReferenceError, and the catch of line 476 reports a failure
idStartGame(st, s) == SocketEmit(st, s, "room-error", "Failed to start game")

\* socket.on('offer'), lines 482-496: absent fields return at line 486;
\* otherwise the argument {sdp, sender: userIdentifier} of emit throws the
\* ReferenceError before emit is called, and the catch of line 493 logs it
idOffer(st, s, data) == st

\* socket.on('answer'), lines 498-512: the same
idAnswer(st, s, data) == st

\* socket.on('ice-candidate'), lines 514-528: the same
idIceCandidate(st, s, data) == st

\* socket.on('game-event'), lines 530-543: line 532 throws the ReferenceError,
\* and the catch of line 540 logs it
idGameEvent(st, s, data, t) == st

\* socket.on('disconnect'), lines 545-563
idDisconnect(st, s) ==
  LET st1 == disconnect(st, s)
      st2 == IF MapHas(st1.socketToUser, s)
             THEN [st1 EXCEPT !.activeNicknames =
                                MapDelete(@, st1.socketToUser[s].deviceId)]
             ELSE st1
  IN [st2 EXCEPT !.socketToUser = MapDelete(@, s)]

\* the setInterval callback of lines 570-590: the code of server.js 343-363
idJanitor(st, t) == janitor(st, t)

(* --------------------------------------------- part_000 (identity): SpecId *)

IdApply(st) ==
  /\ rooms' = st.rooms
  /\ userRooms' = st.userRooms
  /\ adapter' = st.adapter
  /\ activeNicknames' = st.activeNicknames
  /\ socketToUser' = st.socketToUser

\* the payloads the clients of the identity-aware server send
IdSentCreates ==
  {[kind |-> "object", settings |-> Quiz, roomId |-> id] :
     id \in {generateRoomId(0), <<"1", "2", "3", "4", "5">>}}

IdSentJoins == {[kind |-> "string", roomId |-> generateRoomId(0)]}

IdConnect(s) ==
  /\ NextSocket(s)
  /\ \E auth \in AuthInputs :
       LET st == connection(IdSt, s, auth)
       IN /\ IdApply(st)
          /\ conns' = [conns EXCEPT ![s] = IF st.disconnected THEN "closed" ELSE "open"]
  /\ UNCHANGED now

IdCreateRoom(s) ==
  /\ conns[s] = "open"
  /\ \E data \in IdSentCreates :
       \E generated \in (IF data.roomId = Absent THEN generateLoop(rooms, 0) ELSE {Absent}) :
         IdApply(idCreateRoom(IdSt, s, data, now, generated))
  /\ UNCHANGED <<conns, now>>

IdJoinRoom(s) ==
  /\ conns[s] = "open"
  /\ \E data \in IdSentJoins : IdApply(idJoinRoom(IdSt, s, data))
  /\ UNCHANGED <<conns, now>>

IdLeaveRoom(s) ==
  /\ conns[s] = "open"
  /\ IdApply(idLeaveRoom(IdSt, s))
  /\ UNCHANGED <<conns, now>>

IdStartGame(s) ==
  /\ conns[s] = "open"
  /\ IdApply(idStartGame(IdSt, s))
  /\ UNCHANGED <<conns, now>>

IdOffer(s) ==
  /\ conns[s] = "open"
  /\ \E data \in SdpInputs : IdApply(idOffer(IdSt, s, data))
  /\ UNCHANGED <<conns, now>>

IdAnswer(s) ==
  /\ conns[s] = "open"
  /\ \E data \in SdpInputs : IdApply(idAnswer(IdSt, s, data))
  /\ UNCHANGED <<conns, now>>

IdIceCandidate(s) ==
  /\ conns[s] = "open"
  /\ \E data \in CandidateInputs : IdApply(idIceCandidate(IdSt, s, data))
  /\ UNCHANGED <<conns, now>>

IdGameEvent(s) ==
  /\ conns[s] = "open"
  /\ \E data \in GameEventInputs : IdApply(idGameEvent(IdSt, s, data, now))
  /\ UNCHANGED <<conns, now>>

IdDisconnect(s) ==
  /\ conns[s] = "open"
  /\ conns' = [conns EXCEPT ![s] = "closed"]
  /\ IdApply(idDisconnect(IdSt, s))
  /\ UNCHANGED now

IdJanitor ==
  /\ now < MaxTicks * PeriodsPerTick * sweepPeriod
  /\ now' = now + PeriodsPerTick * sweepPeriod
  /\ LET st == sweeps(IdSt, now, PeriodsPerTick) IN IdApply(st)
  /\ UNCHANGED conns

NextId ==
  \/ \E s \in Sockets : IdConnect(s)
  \/ \E s \in Sockets : IdCreateRoom(s)
  \/ \E s \in Sockets : IdJoinRoom(s)
  \/ \E s \in Sockets : IdLeaveRoom(s)
  \/ \E s \in Sockets : IdStartGame(s)
  \/ \E s \in Sockets : IdOffer(s)
  \/ \E s \in Sockets : IdAnswer(s)
  \/ \E s \in Sockets : IdIceCandidate(s)
  \/ \E s \in Sockets : IdGameEvent(s)
  \/ \E s \in Sockets : IdDisconnect(s)
  \/ IdJanitor

InitId == InitWith(MaxIdSockets)

SpecId == InitId /\ [][NextId]_vars

(* ------------------------------------------------------------ claims: Spec *)

Open == {s \in Sockets : conns[s] = "open"}

Members(rms, r) == Elems(rms[r].users)

ErrorOut(s, reason) == <<[ev |-> "room-error", to |-> {s}, arg |-> reason]>>

JoinRoomId(data) == IF data.kind = "null" THEN Absent ELSE data.roomId

JoinPassword(data) == IF data.kind = "object" THEN data.password ELSE Absent

Untouched(st) ==
  st.rooms = rooms /\ st.userRooms = userRooms /\ st.adapter = adapter

PasswordPasses(room, data) ==
  ~room.settings.isPrivate \/ JoinPassword(data) = room.settings.password

\* C1: in every reachable state the host of every room in the store is one
\* of that room's members.
HostIsMember ==
  \A r \in DOMAIN rooms : rooms[r].host \in Members(rooms, r)

\* a host with another member behind it is about to leave, and leaving
\* hands the room to a remaining member
HostIsMember_witness ==
  \E s \in Open :
    /\ MapHas(userRooms, s)
    /\ MapHas(rooms, userRooms[s])
    /\ rooms[userRooms[s]].host = s
    /\ Len(rooms[userRooms[s]].users) >= 2
    /\ LET after == leaveRoom(St, s).rooms[userRooms[s]]
       IN after.host # s /\ after.host \in Elems(after.users)

\* C2: in every reachable state a connection is in the member set of at most
\* one room.
AtMostOneRoom ==
  \A s \in Sockets :
    Cardinality({r \in DOMAIN rooms : s \in Members(rooms, r)}) <= 1

\* C3: a connection whose disconnect event has been processed is a member of
\* no room and the host of no room.
NoStaleMembership ==
  \A s \in Sockets :
    conns[s] = "closed" =>
      \A r \in DOMAIN rooms : s \notin Members(rooms, r) /\ rooms[r].host # s

GeneratedIdIsFresh ==
  \A generated \in generateLoop(rooms, 0) :
    isSixDigits(generated) /\ ~MapHas(rooms, generated)

\* join-room on a private room with no password sends password-required and
\* with another password than the room's sends "Incorrect password", and
\* changes nothing
PrivateJoinAnswers ==
  \A s \in Open, data \in JoinInputs :
    (MapHas(rooms, JoinRoomId(data)) /\ rooms[JoinRoomId(data)].settings.isPrivate)
    => LET r == JoinRoomId(data)
           room == rooms[r]
           st == joinRoom(St, s, data)
       IN /\ JoinPassword(data) = Absent =>
               /\ st.out = <<[ev |-> "password-required", to |-> {s}, arg |-> r]>>
               /\ Untouched(st)
          /\ (JoinPassword(data) # Absent /\ JoinPassword(data) # room.settings.password)
               => st.out = ErrorOut(s, "Incorrect password") /\ Untouched(st)

\* a step that puts s into the member set of private room r is a create-room
\* of s that makes r, or a join-room of s with the password of r
PrivateEntry ==
  \A r \in DOMAIN rooms' :
    rooms'[r].settings.isPrivate =>
      \A s \in Members(rooms', r) \ (IF MapHas(rooms, r) THEN Members(rooms, r) ELSE {}) :
        \/ /\ rooms'[r].users = <<s>>
           /\ \E data \in CreateInputs, generated \in generateLoop(rooms, 0) :
                rooms' = createRoom(St, s, data, now, generated).rooms
        \/ /\ MapHas(rooms, r)
           /\ \E data \in JoinInputs :
                /\ JoinRoomId(data) = r
                /\ JoinPassword(data) = rooms[r].settings.password
                /\ rooms' = joinRoom(St, s, data).rooms

\* C8: join-room on a private room with no password sends password-required
\* and with another password than the room's sends "Incorrect password",
\* changing nothing; a connection enters the member set of a private room only
\* by join-room with the room's password or by creating the room.
PrivateNeedsPassword == []PrivateJoinAnswers /\ [][PrivateEntry]_vars

\* a private room holds a member who joined it with the password, and a
\* connection that asks to join it without one is asked for the password
PrivateNeedsPassword_witness ==
  \E r \in DOMAIN rooms, s \in Open :
    /\ rooms[r].settings.isPrivate
    /\ Len(rooms[r].users) >= 2
    /\ joinRoom(St, s, [kind |-> "string", roomId |-> r]).out
         = <<[ev |-> "password-required", to |-> {s}, arg |-> r]>>

\* C9: a started room stays started while its code stays in the store, and
\* its member set never gains a member.
StartedStaysStarted ==
  [][\A r \in DOMAIN rooms \cap DOMAIN rooms' :
       rooms[r].gameStarted =>
         /\ rooms'[r].gameStarted
         /\ Members(rooms', r) \subseteq Members(rooms, r)]_vars

\* C10: start-game from a connection that is the host of no room sends the
\* caller "Cannot start game" and changes no room.
NonHostStartFails ==
  \A s \in Open :
    (\A r \in DOMAIN rooms : rooms[r].host # s) =>
      LET st == startGame(St, s)
      IN st.rooms = rooms /\ st.out = ErrorOut(s, "Cannot start game")

(* ---------------------------------------------------------- claims: SpecId *)

Admitted == {s \in Sockets : conns[s] = "open" /\ MapHas(socketToUser, s)}

\* C6: no two live admitted connections with different durable client
\* identifiers hold the same display name.
UniqueDisplayNames ==
  \A s1 \in Admitted, s2 \in Admitted :
    socketToUser[s1].deviceId # socketToUser[s2].deviceId =>
      socketToUser[s1].nickname # socketToUser[s2].nickname

\* C7: the admission of a well-formed identity claim is refused with
\* nickname-taken exactly when the claimed name is bound to another durable
\* identifier; otherwise it succeeds and binds the name to the identifier.
AdmissionRule ==
  \A s \in Sockets, auth \in AuthInputs :
    (/\ conns[s] = "idle"
     /\ auth.kind = "object" /\ auth.nickname # Absent /\ auth.deviceId # Absent)
    => LET st == connection(IdSt, s, auth)
           inUse == \E d \in DOMAIN activeNicknames :
                      d # auth.deviceId /\ activeNicknames[d] = auth.nickname
       IN IF inUse
          THEN /\ st.disconnected
               /\ st.out = <<[ev |-> "nickname-taken", to |-> {s}, arg |-> auth.nickname]>>
               /\ st.activeNicknames = activeNicknames
          ELSE /\ ~st.disconnected
               /\ st.out = <<>>
               /\ st.activeNicknames = MapSet(activeNicknames, auth.deviceId, auth.nickname)

(* ------------------------------------------- claims: Spec, notifications *)

EventsOf(out, ev) == SelectSeq(out, LAMBDA e : e.ev = ev)

\* s is the host of the room its back-reference names, and that room has
\* another member
HostWithCompany(s) ==
  /\ MapHas(userRooms, s)
  /\ MapHas(rooms, userRooms[s])
  /\ rooms[userRooms[s]].host = s
  /\ Members(rooms, userRooms[s]) \ {s} # {}

\* st, the state after s was removed from room r, has one new-host event; it
\* goes to the sockets of room r, the connected remaining members among them,
\* and names the host of r, a remaining member
OneNewHost(st, s, r) ==
  LET notes == EventsOf(st.out, "new-host")
  IN /\ Len(notes) = 1
     /\ MapHas(st.rooms, r)
     /\ Members(st.rooms, r) = Members(rooms, r) \ {s}
     /\ notes[1].arg = st.rooms[r].host
     /\ st.rooms[r].host \in Members(st.rooms, r)
     /\ notes[1].to \subseteq {x \in Sockets : r \in adapter[x]}
     /\ (Members(st.rooms, r) \cap Open) \subseteq notes[1].to

\* C11: leave-room and disconnect of a host whose room keeps a member emit
\* exactly one new-host event to the room, whose payload is the room's new
\* host, one of the remaining members.
HostRemovalNotifies ==
  \A s \in Open :
    HostWithCompany(s) =>
      /\ OneNewHost(leaveRoom(St, s), s, userRooms[s])
      /\ OneNewHost(disconnect(St, s), s, userRooms[s])

\* a host is about to disconnect from a room with a connected member, who is
\* told that it is the new host
HostRemovalNotifies_witness ==
  \E s \in Open :
    /\ HostWithCompany(s)
    /\ LET st == disconnect(St, s)
           notes == EventsOf(st.out, "new-host")
       IN /\ Len(notes) = 1
          /\ notes[1].arg \in Open \ {s}
          /\ notes[1].arg \in notes[1].to

\* s is the only member of the room its back-reference names
LastMember(s) ==
  /\ MapHas(userRooms, s)
  /\ MapHas(rooms, userRooms[s])
  /\ Members(rooms, userRooms[s]) = {s}

\* st, the state after the last member of room r was removed, has no room r,
\* and join-room on r then answers "Room does not exist"
RoomGone(st, r) ==
  /\ ~MapHas(st.rooms, r)
  /\ \A c \in Open :
       joinRoom([st EXCEPT !.out = <<>>], c, [kind |-> "string", roomId |-> r]).out
         = ErrorOut(c, "Room does not exist")

\* C12: leave-room and disconnect of the last member of a room delete the
\* room; no room in the store has an empty member set; join-room on a 6-digit
\* code that is not in the store answers "Room does not exist" and changes
\* nothing.
LastMemberDeletesRoom ==
  /\ \A r \in DOMAIN rooms : Len(rooms[r].users) >= 1
  /\ \A s \in Open :
       LastMember(s) =>
         /\ RoomGone(leaveRoom(St, s), userRooms[s])
         /\ RoomGone(disconnect(St, s), userRooms[s])
  /\ \A c \in Open, data \in JoinInputs :
       (isSixDigits(JoinRoomId(data)) /\ ~MapHas(rooms, JoinRoomId(data))) =>
         LET st == joinRoom(St, c, data)
         IN st.out = ErrorOut(c, "Room does not exist") /\ Untouched(st)

\* the only member of a room is about to leave it while another connection
\* is there to ask for the code afterwards
LastMemberDeletesRoom_witness ==
  \E s \in Open, c \in Open :
    /\ c # s
    /\ LastMember(s)
    /\ ~MapHas(leaveRoom(St, s).rooms, userRooms[s])

\* the events of st tell m first new-host, naming a member that remains in
\* room r (m itself when m is the only one), and later user-left for s
ToldInOrder(st, m, s, r) ==
  \E i, j \in 1..Len(st.out) :
    /\ i < j
    /\ st.out[i].ev = "new-host"
    /\ m \in st.out[i].to
    /\ st.out[i].arg \in Members(st.rooms, r)
    /\ (Members(st.rooms, r) = {m} => st.out[i].arg = m)
    /\ st.out[j].ev = "user-left"
    /\ st.out[j].arg = s
    /\ m \in st.out[j].to

\* C13: when the host of a room disconnects while other members remain,
\* every remaining member is sent new-host, naming a remaining member, and
\* then user-left for the departed connection.
HostDisconnectTellsMembers ==
  \A s \in Open :
    HostWithCompany(s) =>
      \A m \in Members(rooms, userRooms[s]) \ {s} :
        ToldInOrder(disconnect(St, s), m, s, userRooms[s])

(* ------------------------------------------------- claims: Spec, relaying *)

\* the sockets the events of out are sent to
Delivered(out) == UNION {out[i].to : i \in 1..Len(out)}

\* the rooms of the store that have s in their member set
RoomsOf(s) == {r \in DOMAIN rooms : s \in Members(rooms, r)}

\* C14: a game-event of a connection that is a member of a room is delivered
\* to exactly the other connected members of that room, carrying the sender's
\* id, and a game-event of a connection that is in no room is delivered to
\* nobody; the handler changes nothing.
GameEventReachesRoom ==
  \A s \in Open, data \in GameEventInputs :
    data.kind # "null" =>
      LET st == gameEvent(St, s, data, now)
      IN /\ Untouched(st)
         /\ \A i \in 1..Len(st.out) :
              st.out[i].ev = "game-event" /\ st.out[i].arg.sender = s
         /\ RoomsOf(s) = {} => Delivered(st.out) = {}
         /\ \A r \in RoomsOf(s) :
              Delivered(st.out) = (Members(rooms, r) \cap Open) \ {s}

RelayTarget(data) == IF data.kind = "null" THEN Absent ELSE data.target

\* st, the state after a relay handler ran for s, is the state before it; its
\* events go to nobody but the connected socket whose id is target, and to
\* nobody when the payload field is absent; none goes to s
RelayedOnlyTo(st, s, target, present) ==
  /\ Untouched(st)
  /\ s \notin Delivered(st.out)
  /\ Delivered(st.out) \subseteq (IF present THEN {target} \cap Open ELSE {})

\* C15: offer, answer and ice-candidate deliver to at most one connection,
\* the connected one whose id is the target, and to nobody when the target is
\* not the id of a connected socket or the payload field is absent; the
\* sender is sent nothing.
RelayReachesTargetOnly ==
  \A s \in Open :
    /\ \A data \in SdpInputs :
         LET present == data.kind # "null" /\ data.sdp # Absent
         IN /\ RelayedOnlyTo(offer(St, s, data), s, RelayTarget(data), present)
            /\ RelayedOnlyTo(answer(St, s, data), s, RelayTarget(data), present)
    /\ \A data \in CandidateInputs :
         RelayedOnlyTo(iceCandidate(St, s, data), s, RelayTarget(data),
                       data.kind # "null" /\ data.candidate # Absent)

(* --------------------------------------------------- claims: Spec, janitor *)

\* C16: in the state a janitor sweep leaves, no room of the store is older
\* than the time-to-live, and no member of a room the sweep evicted has a
\* back-reference to that room, whatever the room's member count and started
\* flag were.
SweepEvictsOldRooms ==
  [][now' # now =>
       /\ \A r \in DOMAIN rooms' : now' - rooms'[r].createdAt <= oneHour
       /\ \A r \in DOMAIN rooms \ DOMAIN rooms' :
            \A m \in Members(rooms, r) :
              ~(MapHas(userRooms', m) /\ userRooms'[m] = r)]_vars

\* a started room with two members, both holding a back-reference to it, is
\* about to be evicted by the next sweeps
SweepEvictsOldRooms_witness ==
  \E r \in DOMAIN rooms :
    /\ now < MaxTicks * PeriodsPerTick * sweepPeriod
    /\ rooms[r].gameStarted
    /\ Len(rooms[r].users) >= 2
    /\ \A m \in Members(rooms, r) : MapHas(userRooms, m) /\ userRooms[m] = r
    /\ ~MapHas(sweeps(St, now, PeriodsPerTick).rooms, r)

(* ----------------------------------------------- claims: Spec, create-room *)

\* C17 as claimed: create-room with a requested code that is in the store
\* answers "Room ID already exists", and with a requested code that is not 6
\* digits "Room ID must be exactly 6 digits", whatever the settings are, and
\* creates no room.
RequestedCodeErrorsAnySettings ==
  \A s \in Open, data \in CreateInputs :
    (data.kind = "object" /\ data.roomId # Absent) =>
      LET st == createRoom(St, s, data, now, Absent)
      IN /\ MapHas(rooms, data.roomId) =>
              st.out = ErrorOut(s, "Room ID already exists") /\ Untouched(st)
         /\ ~isSixDigits(data.roomId) =>
              st.out = ErrorOut(s, "Room ID must be exactly 6 digits") /\ Untouched(st)

\* C17 as amended: create-room with a requested code that is in the store or
\* is not 6 digits creates no room and sends the caller one room-error; with
\* valid settings it is "Room ID already exists", respectively "Room ID must
\* be exactly 6 digits", and with invalid settings "Invalid game settings"
\* (the settings are validated first).
RequestedCodeErrors ==
  \A s \in Open, data \in CreateInputs :
    (/\ data.kind = "object"
     /\ data.roomId # Absent
     /\ MapHas(rooms, data.roomId) \/ ~isSixDigits(data.roomId)) =>
      LET st == createRoom(St, s, data, now, Absent)
      IN /\ Untouched(st)
         /\ st.out =
              ErrorOut(s, IF ~validateSettings(data.settings)
                          THEN "Invalid game settings"
                          ELSE IF ~isSixDigits(data.roomId)
                          THEN "Room ID must be exactly 6 digits"
                          ELSE "Room ID already exists")

\* a room exists whose code a connection asks for with valid settings, and
\* is told that the code exists
RequestedCodeErrors_witness ==
  \E r \in DOMAIN rooms, s \in Open :
    createRoom(St, s, [kind |-> "object", settings |-> Secret, roomId |-> r], now, Absent).out
      = ErrorOut(s, "Room ID already exists")

(* ------------------------------------------------ claims: SpecId, failures *)

\* the handler that led to st did not do what it was asked for: it sent none
\* of the events that report success
Refused(st) ==
  \A i \in 1..Len(st.out) :
    st.out[i].ev \notin {"room-created", "room-joined", "game-started"}

\* st reports one failure event to s and leaves the connection of s open
ReportedAndOpen(st, s) ==
  /\ Len(st.out) = 1
  /\ st.out[1].to = {s}
  /\ st.out[1].ev \in {"room-error", "password-required", "nickname-taken"}
  /\ ~st.disconnected

\* C18: a refused create-room, join-room or start-game, and a refused
\* admission of a well-formed identity claim, send the caller one failure
\* event and leave its connection open.
FailuresKeepConnection ==
  /\ \A s \in Sockets, auth \in AuthInputs :
       (/\ conns[s] = "idle"
        /\ auth.kind = "object" /\ auth.nickname # Absent /\ auth.deviceId # Absent) =>
         LET st == connection(IdSt, s, auth)
         IN ~MapHas(st.socketToUser, s) => ReportedAndOpen(st, s)
  /\ \A s \in Open :
       /\ \A data \in CreateInputs, generated \in generateLoop(rooms, 0) :
            LET st == idCreateRoom(IdSt, s, data, now, generated)
            IN Refused(st) => ReportedAndOpen(st, s)
       /\ \A data \in JoinInputs :
            LET st == idJoinRoom(IdSt, s, data)
            IN Refused(st) => ReportedAndOpen(st, s)
       /\ LET st == idStartGame(IdSt, s)
          IN Refused(st) => ReportedAndOpen(st, s)

\* C19: the settings of every room in the store carry a password, of exactly
\* 5 characters, if and only if the room is private.
PasswordIffPrivate ==
  \A r \in DOMAIN rooms :
    rooms[r].settings.isPrivate
      <=> (rooms[r].settings.password # Absent /\ Len(rooms[r].settings.password) = 5)

(* ----------------------------------------------------- claims: Spec, index *)

\* C20: connection c has the back-reference userRooms[c] = r if and only if
\* room r is in the store and c is in its member set.
IndexAgrees ==
  \A c \in Sockets :
    \A r \in DOMAIN rooms \cup {userRooms[x] : x \in DOMAIN userRooms} :
      (MapHas(userRooms, c) /\ userRooms[c] = r)
        <=> (MapHas(rooms, r) /\ c \in Members(rooms, r))

(* ------------------------------------------------ claims: SpecLive, liveness *)

\* the values Date.now() takes
ClockValues == {k * PeriodsPerTick * sweepPeriod : k \in 0..MaxTicks}

\* the room created at time c under code r is in the store
RoomAt(r, c) == MapHas(rooms, r) /\ rooms[r].createdAt = c

\* C21: every room that enters the store early enough for its time-to-live to
\* lapse before the end of the modelled time is eventually out of the store,
\* whatever joins, leaves and starts happen, provided the periodic sweep keeps
\* firing.
RoomsAreRemoved ==
  \A r \in GeneratedIds :
    \A c \in {x \in ClockValues : x + oneHour < Horizon} :
      RoomAt(r, c) ~> ~RoomAt(r, c)

\* a started room with two members is in the store at a time from which its
\* time-to-live lapses before the end of the modelled time
RoomsAreRemoved_witness ==
  \E r \in DOMAIN rooms :
    /\ rooms[r].createdAt + oneHour < Horizon
    /\ rooms[r].gameStarted
    /\ Len(rooms[r].users) >= 2
    /\ now = rooms[r].createdAt

(* ------------------------------------------------- claims: SpecId, release *)

\* the name bound to the durable identifier of connection c, if any
BindingOf(names, c) ==
  IF MapHas(names, socketToUser[c].deviceId)
  THEN <<names[socketToUser[c].deviceId]>>
  ELSE <<>>

\* C22: the disconnect of an admitted connection s leaves the name binding
\* and the identity of every other live admitted connection as they were,
\* also when it shares the durable identifier of s, and takes the identity of
\* s away; a connection whose admission is refused changes neither map.
ReleaseOnlyOwnBinding ==
  /\ \A s \in Admitted :
       LET st == idDisconnect(IdSt, s)
       IN /\ ~MapHas(st.socketToUser, s)
          /\ \A c \in Admitted \ {s} :
               /\ MapHas(st.socketToUser, c)
               /\ st.socketToUser[c] = socketToUser[c]
               /\ BindingOf(st.activeNicknames, c) = BindingOf(activeNicknames, c)
  /\ \A s \in Sockets, auth \in AuthInputs :
       conns[s] = "idle" =>
         LET st == connection(IdSt, s, auth)
         IN st.disconnected =>
              /\ st.activeNicknames = activeNicknames
              /\ st.socketToUser = socketToUser

(* ----------------------------------------------- claims: Spec, janitor frame *)

\* C23: a janitor sweep leaves every room that is not older than the
\* time-to-live as it was, and leaves the back-reference of every connection
\* whose back-reference names a room that survives the sweep as it was.
SweepKeepsTheRest ==
  [][now' # now =>
       /\ \A r \in DOMAIN rooms :
            now' - rooms[r].createdAt <= oneHour =>
              MapHas(rooms', r) /\ rooms'[r] = rooms[r]
       /\ \A c \in DOMAIN userRooms :
            MapHas(rooms', userRooms[c]) =>
              MapHas(userRooms', c) /\ userRooms'[c] = userRooms[c]]_vars

(* ---------------------------------------------- claims: SpecId, equivalence *)

\* the room-level notifications among the events of out, without their
\* payloads
RoomNotes(out) ==
  LET notes == SelectSeq(out, LAMBDA e :
                 e.ev \in {"user-left", "new-host", "game-started", "game-event"})
  IN [i \in 1..Len(notes) |-> [ev |-> notes[i].ev, to |-> notes[i].to]]

\* the two versions leave the same room store and index and send the same
\* room-level notifications
SameRooms(idst, st) ==
  /\ idst.rooms = st.rooms
  /\ idst.userRooms = st.userRooms
  /\ RoomNotes(idst.out) = RoomNotes(st.out)

\* C24: from the same room store and index, every create-room, join-room,
\* leave-room, start-game, game-event and disconnect of an admitted
\* connection leaves the identity-aware server and the plain server with the
\* same room store and index and sends the same room-level notifications to
\* the same connections.
VersionsAgree ==
  \A s \in Admitted :
    /\ \A data \in CreateInputs, generated \in generateLoop(rooms, 0) :
         SameRooms(idCreateRoom(IdSt, s, data, now, generated),
                   createRoom(St, s, data, now, generated))
    /\ \A data \in JoinInputs :
         SameRooms(idJoinRoom(IdSt, s, data), joinRoom(St, s, data))
    /\ SameRooms(idLeaveRoom(IdSt, s), leaveRoom(St, s))
    /\ SameRooms(idStartGame(IdSt, s), startGame(St, s))
    /\ \A data \in GameEventInputs :
         SameRooms(idGameEvent(IdSt, s, data, now), gameEvent(St, s, data, now))
    /\ SameRooms(idDisconnect(IdSt, s), disconnect(St, s))

(* ------------------------------------------------ claims: Spec, start-game *)

\* no room that st and the store both hold goes from not started to started
KeepsUnstarted(st) ==
  \A r \in DOMAIN rooms \cap DOMAIN st.rooms :
    ~rooms[r].gameStarted => ~st.rooms[r].gameStarted

\* C25: only start-game sets a started flag, and only when its caller is the
\* host of the room its back-reference names and that room has at least 2
\* members; start-game of the host of a room that is not started and has
\* fewer than 2 members answers "Need at least 2 players" and leaves the flag
\* false; a successful start sends game-started to every other member of the
\* room and not to the caller.
StartGameRule ==
  /\ \A s \in Open :
       /\ \A data \in CreateInputs, generated \in generateLoop(rooms, 0) :
            KeepsUnstarted(createRoom(St, s, data, now, generated))
       /\ \A data \in JoinInputs : KeepsUnstarted(joinRoom(St, s, data))
       /\ KeepsUnstarted(leaveRoom(St, s))
       /\ KeepsUnstarted(disconnect(St, s))
       /\ \A data \in GameEventInputs : KeepsUnstarted(gameEvent(St, s, data, now))
  /\ KeepsUnstarted(sweeps(St, now, PeriodsPerTick))
  /\ \A s \in Open :
       LET st == startGame(St, s)
       IN \A r \in DOMAIN rooms :
            /\ (~rooms[r].gameStarted /\ MapHas(st.rooms, r) /\ st.rooms[r].gameStarted) =>
                 /\ rooms[r].host = s
                 /\ MapHas(userRooms, s) /\ userRooms[s] = r
                 /\ Len(rooms[r].users) >= 2
                 /\ Len(st.out) = 1
                 /\ st.out[1].ev = "game-started"
                 /\ s \notin st.out[1].to
                 /\ Members(rooms, r) \ {s} \subseteq st.out[1].to
            /\ (/\ MapHas(userRooms, s) /\ userRooms[s] = r
                /\ rooms[r].host = s
                /\ ~rooms[r].gameStarted
                /\ Len(rooms[r].users) < 2) =>
                 st.out = ErrorOut(s, "Need at least 2 players") /\ Untouched(st)

====
